---- MODULE Spec2Model ----
(***************************************************************************)
(* Model of hypothesis.core: the example() and seed() decorators and the   *)
(* wrapped_test orchestrator built by given(): seed derivation, explicit   *)
(* examples, database replay, the search run of the conjecture engine,     *)
(* outcome classification and the reproduction / flakiness protocol.       *)
(*                                                                         *)
(* The test body, the strategies' draw, the database and the engine are    *)
(* the environment: every execution of the test body picks its outcome     *)
(* nondeterministically (a test may be flaky), the engine picks the        *)
(* candidates it evaluates and when it stops.                              *)
(***************************************************************************)
EXTENDS Integers, Sequences, FiniteSets, TLC

\* ------------------------------------------------------------------ bounds
MaxExamples == 2        \* explicit examples declared on one test
NBuffers == 2           \* distinct byte buffers (database and engine)
MaxEvals == 2           \* candidate evaluations in one engine run
MaxRunTime == 1         \* largest elapsed wall-clock time of an engine run
MaxInt == 2             \* largest magnitude of a bound of an integer range
MaxByte == 7            \* largest value of a byte drawn for an integer
MaxBits == 3            \* largest bit length a wide-range draw asks for

\* --------------------------------------------------------------- constants
None == -1              \* Python's None, for integer-valued slots

\* conjecture.data.Status
OVERRUN == 0
INVALID == 1
VALID == 2
INTERESTING == 3

Buffers == 1 .. NBuffers

\* A dict is a set of <<key, value>> pairs with distinct keys.
DictUpdate(d, other) ==
    {p \in d : \A q \in other : q[1] # p[1]} \cup other

RECURSIVE Zip(_, _)
Zip(names, values) ==
    IF names = <<>> \/ values = <<>> THEN {}
    ELSE {<<Head(names), Head(values)>>} \cup Zip(Tail(names), Tail(values))

\* s[-n:] for 0 < n; Python's s[-0:] is the whole sequence
LastN(s, n) ==
    IF n = 0 \/ n >= Len(s) THEN s
    ELSE SubSeq(s, Len(s) - n + 1, Len(s))

\* getargspec(test).args of the decorated test: def test(self, y)
original_argspec_args == <<"self", "y">>

\* the literals a user may pass to example(), and to the wrapped call
ExampleArgs == {<<>>, <<1>>}
ExampleKwargs == {{}, {<<"y", 2>>}}
CallKwargs == {{}, {<<"self", 7>>}}

\* Example = namedtuple('Example', ('args', 'kwargs'))
Example(args, kwargs) == [args |-> args, kwargs |-> kwargs]

\* settings the model explores
SeedValues == {None, 0, 1}
MaxExamplesValues == {-1, 0, 2}
MinSatisfyingValues == {1, 3}
TimeoutValues == {0, 1}

Settings(me, ms, to, de, dbc, st, phc) ==
    [max_examples |-> me, min_satisfying_examples |-> ms, timeout |-> to,
     derandomize |-> de, database |-> dbc, strict |-> st,
     perform_health_check |-> phc]

Min(a, b) == IF a <= b THEN a ELSE b

\* one call on settings.database: fetch, delete or save, and the buffer
DbCall(op, buffer) == [op |-> op, buffer |-> buffer]

\* one report() call: what was reported and about which example / buffer
Report(kind, arg) == [kind |-> kind, arg |-> arg]

VARIABLES
    pc,                             \* position in the decorated test's life
    hypothesis_explicit_examples,   \* wrapped_test.hypothesis_explicit_examples
    decl_result,                    \* outcome of the last example() call
    use_seed,                       \* wrapped_test._hypothesis_internal_use_seed
    settings,                       \* wrapped_test._hypothesis_internal_use_settings
    default_health,                 \* Settings.default.perform_health_check
    kwargs,                         \* keyword arguments of the wrapped call
    random,                         \* the random source chosen for the run
    todo,                           \* explicit examples not yet run (a count)
    executed,                       \* the explicit examples run: index, outcome
    reports,                        \* report() calls, in order
    warnings,                       \* warnings.warn(FailedHealthCheck) calls
    result,                         \* how the wrapped call ended
    warned_random,                  \* warned_random[0]
    perform_health_check,           \* the local perform_health_check
    last_exception,                 \* last_exception[0]: id of the evaluation
    repr_for_last_exception,        \* repr_for_last_exception[0]: buffer drawn from
    falsifying_example,             \* the falsifying buffer, or None
    found_by,                       \* which phase set falsifying_example
    db,                             \* buffers stored under database_key
    fetched,                        \* what database.fetch returned, or <<>>
    replayed,                       \* <<buffer, status>> of each replay evaluation
    db_log,                         \* the calls made on the database, in order
    runner,                         \* the TestRunner: last_data, valid_examples
    evals,                          \* evaluate_test_data calls so far
    run_time,                       \* elapsed time of runner.run(), or None
    repro,                          \* outcomes of the reproduction executions
    health,                         \* the random-state health check, observed
    evaluated,                      \* the last call of evaluate_test_data, observed
    declared,                       \* the arguments of the last example() call
    generator,                      \* given()'s generator_arguments and _kwargs
    test_argspec,                   \* getargspec(test) of the decorated test
    invalid,                        \* the message of invalid(), if it was used
    search,                         \* find(): what the strategy draws, by buffer
    condition,                      \* find(): the values the condition accepts
    successful_examples,            \* find(): successful_examples[0]
    finder,                         \* find(): its TestRunner
    find_pc,                        \* find(): position in the call
    found,                          \* find(): how the call ended
    strategy,                       \* the numeric strategy constructed
    data,                           \* the bytes the TestData supplies to a draw
    returned                        \* what do_draw returned

vars == <<pc, hypothesis_explicit_examples, decl_result, use_seed, settings,
          default_health, kwargs, random, todo, executed, reports, warnings,
          result, warned_random, perform_health_check, last_exception,
          repr_for_last_exception, falsifying_example, found_by, db, fetched,
          replayed, db_log, runner, evals, run_time, repro, health, declared,
          evaluated, generator, test_argspec, invalid, search, condition,
          successful_examples, finder, find_pc, found, strategy, data,
          returned>>

\* the state of the decoration by given(), of a find() call, of a strategy
given_vars == <<generator, test_argspec, invalid>>
find_vars ==
    <<search, condition, successful_examples, finder, find_pc, found>>
num_vars == <<strategy, data, returned>>

\* ------------------------------------------------------------ construction
\* The state once given() has wrapped the test (core.py:546-556): the seed
\* and settings attributes are whatever seed() and settings() left on it,
\* no example() has been applied yet and nothing has run.
InitWith(seeds, derand, maxex, minsat, timeouts, dbconf, stricts, healths, defaults) ==
    /\ pc = "declare"
    /\ hypothesis_explicit_examples = <<>>
    /\ decl_result = "none"
    /\ use_seed \in seeds
    /\ \E me \in maxex, ms \in minsat, to \in timeouts, de \in derand,
          dbc \in dbconf, st \in stricts, phc \in healths :
          settings = Settings(me, ms, to, de, dbc, st, phc)
    /\ default_health \in defaults
    /\ db \in (IF settings.database THEN SUBSET Buffers ELSE {{}})
    /\ kwargs = {}
    /\ random = [source |-> "none", seed |-> None]
    /\ todo = 0
    /\ executed = <<>>
    /\ reports = <<>>
    /\ warnings = 0
    /\ result = "running"
    /\ warned_random = FALSE
    /\ perform_health_check = FALSE
    /\ last_exception = None
    /\ repr_for_last_exception = None
    /\ falsifying_example = None
    /\ found_by = "none"
    /\ fetched = <<>>
    /\ replayed = <<>>
    /\ db_log = <<>>
    /\ runner = [constructed |-> FALSE, ran |-> FALSE, calls |-> 0,
                 last_data |-> None, status |-> None, last_eval |-> None,
                 valid_examples |-> 0]
    /\ evals = 0
    /\ run_time = None
    /\ repro = <<>>
    /\ evaluated = [buffer |-> None, outcome |-> "none", status |-> None]
    /\ health = [snapshots |-> 0, failures |-> 0, first_change |-> None,
                 failed_at |-> None]
    /\ declared = <<>>

\* given(*generator_arguments, **generator_kwargs): the number of positional
\* strategies and the names of the keyword strategies
Generator(n, names) == [arguments |-> n, kwargs |-> names]

\* getargspec(test): def test(self, y), with or without *args, **kwargs and
\* default values
ArgSpec(varargs, keywords, defaults) ==
    [args |-> original_argspec_args, varargs |-> varargs,
     keywords |-> keywords, defaults |-> defaults]

\* given(y=...) has been applied to def test(self, y)
Decorated ==
    /\ generator = Generator(0, {"y"})
    /\ test_argspec = ArgSpec(FALSE, FALSE, FALSE)
    /\ invalid = "none"

\* no find() call is under way
NoFind ==
    /\ search = [strategy |-> FALSE, draw |-> <<>>]
    /\ condition = {}
    /\ successful_examples = 0
    /\ finder = [calls |-> 0, last_data |-> None, status |-> None]
    /\ find_pc = "idle"
    /\ found = [raised |-> "none", value |-> <<>>]

\* no numeric strategy has been constructed
Strategy(kind, start, end, allow_infinity, allow_nan, raised) ==
    [kind |-> kind, start |-> start, end |-> end,
     allow_infinity |-> allow_infinity, allow_nan |-> allow_nan,
     raised |-> raised]

\* a TestData the engine fills from its random source, and
\* TestData.for_buffer(buffer), which replays the bytes of a buffer
FreshData == [for_buffer |-> FALSE, buffer |-> <<>>]
ForBuffer(buffer) == [for_buffer |-> TRUE, buffer |-> buffer]

NoStrategy ==
    /\ strategy = Strategy("none", 0, 0, FALSE, FALSE, "none")
    /\ data = FreshData
    /\ returned = [raised |-> "none", value |-> <<>>]

\* Runs of a test without explicit examples, whose search is not skipped:
\* every combination of the settings the health checks read, and every
\* combination of those the final verdict reads (the evaluations read
\* neither min_satisfying_examples nor timeout, the verdict reads neither
\* strict nor perform_health_check).
Init ==
    /\ \/ InitWith({None}, {FALSE}, {2}, {1}, {0},
                   BOOLEAN, BOOLEAN, BOOLEAN, BOOLEAN)
       \/ InitWith({None}, {FALSE}, {2}, MinSatisfyingValues, TimeoutValues,
                   BOOLEAN, {FALSE}, {TRUE}, {TRUE})
    /\ Decorated /\ NoFind /\ NoStrategy

\* Every combination of seed override and derandomize.
InitSeed ==
    /\ InitWith(SeedValues, BOOLEAN, {2}, {1}, {0}, {TRUE}, {FALSE}, {FALSE},
                {TRUE})
    /\ Decorated /\ NoFind /\ NoStrategy

\* Tests with explicit examples, with and without a search after them.
InitExamples ==
    /\ InitWith({None}, {FALSE}, MaxExamplesValues, {1}, {0}, BOOLEAN, {FALSE},
                {FALSE}, {TRUE})
    /\ Decorated /\ NoFind /\ NoStrategy

\* the decorations the model explores
GeneratorArguments == 0 .. 3
GeneratorKwargs == SUBSET {"y", "z"}

\* A test about to be decorated by given(), with any strategies and any
\* signature; its search, were it to run, is skipped.
InitGiven ==
    /\ InitWith({None}, {FALSE}, {0}, {1}, {0}, {FALSE}, {FALSE}, {FALSE},
                {TRUE})
    /\ \E n \in GeneratorArguments, names \in GeneratorKwargs :
           generator = Generator(n, names)
    /\ \E va \in BOOLEAN, kw \in BOOLEAN, de \in BOOLEAN :
           test_argspec = ArgSpec(va, kw, de)
    /\ invalid = "undecorated"
    /\ NoFind /\ NoStrategy

\* the values the strategies of the model produce
Values == {10, 20}

\* what data.draw(search) does on one buffer: it returns a value, raises
\* UnsatisfiedAssumption (a filter), or runs off the end of the buffer
Drawn(v) == [raised |-> "none", value |-> v]
DrawOutcomes ==
    {Drawn(v) : v \in Values}
    \cup {[raised |-> "UnsatisfiedAssumption", value |-> None],
          [raised |-> "StopTest", value |-> None]}

\* A strategy is a function of the buffer it draws from.
Specifiers ==
    {[strategy |-> TRUE, draw |-> f] : f \in [Buffers -> DrawOutcomes]}
    \cup {[strategy |-> FALSE, draw |-> <<>>]}

\* find(specifier, condition) is about to be called: any specifier, and a
\* condition that raises nothing and accepts any set of the values.
InitFind ==
    /\ InitWith({None}, {FALSE}, {2}, {1}, {0}, {FALSE}, {FALSE}, {FALSE},
                {TRUE})
    /\ Decorated /\ NoStrategy
    /\ search \in Specifiers
    /\ condition \in SUBSET Values
    /\ successful_examples = 0
    /\ finder = [calls |-> 0, last_data |-> None, status |-> None]
    /\ find_pc = "find"
    /\ found = [raised |-> "none", value |-> <<>>]

\* the bounds of the integer ranges the model constructs
Ints == -MaxInt .. MaxInt

\* the single bytes and the 8-byte strings the model draws and replays
IntBytes == {<<b>> : b \in 0 .. MaxByte}
FloatBytes ==
    {<<b0, b1, 0, 0, 0, 0, 0, b7>> :
         b0 \in {0, 63, 127, 255}, b1 \in {0, 240, 248}, b7 \in {0, 1}}

\* numbers.py:80: the bytes of one wide-range integer
size == 16

\* the 17-byte strings the model replays: a sign byte, then 16 bytes
WideBytes ==
    {<<b0>> \o [i \in 1 .. size |-> IF i = size THEN b16 ELSE b1] :
         b0 \in {0, 1}, b1 \in {0, 255}, b16 \in {0, 5}}

\* No strategy is constructed yet; the TestData a draw will use is fresh,
\* or replays any buffer.
InitNumbers ==
    /\ InitWith({None}, {FALSE}, {2}, {1}, {0}, {FALSE}, {FALSE}, {FALSE},
                {TRUE})
    /\ Decorated /\ NoFind
    /\ strategy = Strategy("none", 0, 0, FALSE, FALSE, "none")
    /\ data \in {FreshData}
                \cup {ForBuffer(b) :
                         b \in {<<>>} \cup IntBytes \cup FloatBytes
                                  \cup WideBytes}
    /\ returned = [raised |-> "none", value |-> <<>>]

\* ----------------------------------------------------------------- given()
\* InvalidMessage without the test for default values
InvalidMessageAllowingDefaults(g, a) ==
    IF ~(g.arguments > 0 \/ g.kwargs # {})
    THEN "given must be called with at least one argument"
    ELSE IF g.arguments > 0 /\ (a.varargs \/ a.keywords)
    THEN "varargs or keywords are not supported with positional arguments"
    ELSE IF g.arguments > Len(a.args)
    THEN "Too many positional arguments"
    ELSE IF g.arguments > 0 /\ g.kwargs # {}
    THEN "cannot mix positional and keyword arguments to @given"
    ELSE IF {k \in g.kwargs : \A i \in 1 .. Len(a.args) : a.args[i] # k} # {}
            /\ ~a.keywords
    THEN "got an unexpected keyword argument"
    ELSE "none"

\* core.py:150-194: the checks of run_test_with_generator, in their order;
\* "none" when none of them returns invalid(message). (Destructuring
\* arguments, core.py:184-190, do not exist in the signatures modelled.)
InvalidMessage(g, a) ==
    IF ~(g.arguments > 0 \/ g.kwargs # {})
    THEN "given must be called with at least one argument"
    ELSE IF g.arguments > 0 /\ (a.varargs \/ a.keywords)
    THEN "varargs or keywords are not supported with positional arguments"
    ELSE IF g.arguments > Len(a.args)
    THEN "Too many positional arguments"
    ELSE IF g.arguments > 0 /\ g.kwargs # {}
    THEN "cannot mix positional and keyword arguments to @given"
    ELSE IF {k \in g.kwargs : \A i \in 1 .. Len(a.args) : a.args[i] # k} # {}
            /\ ~a.keywords
    THEN "got an unexpected keyword argument"
    ELSE IF a.defaults
    THEN "Cannot apply @given to a function with defaults."
    ELSE "none"

\* core.py:149-218, 546-557: given(...)(test) returns the wrapped test, or
\* the function made by invalid(message), which has none of the attributes
\* of the test
given ==
    /\ pc = "declare"
    /\ invalid = "undecorated"
    /\ invalid' = InvalidMessage(generator, test_argspec)
    /\ hypothesis_explicit_examples' =
           IF InvalidMessage(generator, test_argspec) = "none"
           THEN hypothesis_explicit_examples ELSE <<>>
    /\ UNCHANGED <<pc, decl_result, use_seed, settings, default_health,
                   kwargs, random, todo, executed, reports, warnings, result,
                   warned_random, perform_health_check, last_exception,
                   repr_for_last_exception, falsifying_example, found_by, db,
                   fetched, replayed, db_log, runner, evals, run_time, repro,
                   health, declared, evaluated, generator, test_argspec,
                   find_vars, num_vars>>

\* --------------------------------------------------------------- example()
\* example() registering the Example before it checks the arguments
exampleRegistersFirst(args, ekwargs) ==
    /\ UNCHANGED <<evaluated, health, given_vars, find_vars, num_vars>>
    /\ pc = "declare"
    /\ Len(hypothesis_explicit_examples) < MaxExamples
    /\ declared' = <<Example(args, ekwargs)>>
    /\ hypothesis_explicit_examples' =
           Append(hypothesis_explicit_examples, Example(args, ekwargs))
    /\ decl_result' = IF (args # <<>> /\ ekwargs # {})
                         \/ ~(args # <<>> \/ ekwargs # {})
                      THEN "InvalidArgument" ELSE "accepted"
    /\ UNCHANGED <<pc, use_seed, settings, default_health, kwargs, random,
                   todo, executed, reports, warnings, result, warned_random,
                   perform_health_check, last_exception,
                   repr_for_last_exception, falsifying_example, found_by, db,
                   fetched, replayed, db_log, runner, evals, run_time,
                   repro>>

\* core.py:83-100. example(*args, **kwargs)(test): both or neither kind of
\* argument is an InvalidArgument and registers nothing; otherwise the
\* Example is appended to the test's list.
example(args, ekwargs) ==
    /\ UNCHANGED <<evaluated, health, given_vars, find_vars, num_vars>>
    /\ pc = "declare"
    /\ Len(hypothesis_explicit_examples) < MaxExamples
    /\ declared' = <<Example(args, ekwargs)>>
    /\ IF args # <<>> /\ ekwargs # {}
       THEN /\ decl_result' = "InvalidArgument"
            /\ UNCHANGED hypothesis_explicit_examples
       ELSE IF ~(args # <<>> \/ ekwargs # {})
       THEN /\ decl_result' = "InvalidArgument"
            /\ UNCHANGED hypothesis_explicit_examples
       ELSE /\ decl_result' = "accepted"
            /\ hypothesis_explicit_examples' =
                   Append(hypothesis_explicit_examples, Example(args, ekwargs))
    /\ UNCHANGED <<pc, use_seed, settings, default_health, kwargs, random,
                   todo, executed, reports, warnings, result, warned_random,
                   perform_health_check, last_exception,
                   repr_for_last_exception, falsifying_example, found_by, db,
                   fetched, replayed, db_log, runner, evals, run_time,
                   repro>>

DeclareExample == \E args \in ExampleArgs, ekwargs \in ExampleKwargs :
                      example(args, ekwargs)

\* ------------------------------------------------------- seed derivation
\* new_random(), core.py:47-49: seeded from process-level randomness; the
\* 128 random bits are not a value the program chooses, so they are left
\* abstract.
new_random == [source |-> "new_random", seed |-> None]

\* function_digest(test): a fixed function of the test
function_digest == 2

\* ChooseRandom with the two tests in the other order
ChooseRandomDerandomizeFirst(internal_use_seed, s) ==
    IF s.derandomize
    THEN [source |-> "function_digest", seed |-> function_digest]
    ELSE IF internal_use_seed # None
    THEN [source |-> "seed", seed |-> internal_use_seed]
    ELSE new_random

\* core.py:222-228
ChooseRandom(internal_use_seed, s) ==
    IF internal_use_seed # None
    THEN [source |-> "seed", seed |-> internal_use_seed]
    ELSE IF s.derandomize
    THEN [source |-> "function_digest", seed |-> function_digest]
    ELSE new_random

\* wrapped_test(*arguments, **kwargs): of invalid(message), core.py:152-155,
\* it raises InvalidArgument; else, core.py:220-243, the call starts, the
\* random source is chosen, the explicit examples are about to run.
Invoke ==
    /\ UNCHANGED <<evaluated, health, declared, given_vars, find_vars, num_vars>>
    /\ pc = "declare"
    /\ invalid # "undecorated"
    /\ decl_result' = "none"
    /\ IF invalid # "none"
       THEN /\ result' = "InvalidArgument"
            /\ pc' = "done"
            /\ UNCHANGED <<kwargs, random, todo>>
       ELSE /\ \E kw \in CallKwargs : kwargs' = kw
            /\ random' = ChooseRandom(use_seed, settings)
            /\ todo' = Len(hypothesis_explicit_examples)
            /\ pc' = "examples"
            /\ UNCHANGED result
    /\ UNCHANGED <<hypothesis_explicit_examples, use_seed,
                   settings, default_health, executed, reports, warnings,
                   warned_random, perform_health_check,
                   last_exception, repr_for_last_exception,
                   falsifying_example, found_by, db, fetched, replayed,
                   db_log, runner, evals, run_time, repro>>

\* ------------------------------------------------------ explicit examples
\* what one execution of the test body on an explicit example can do
ExampleOutcomes == {"pass", "raise", "assume"}

\* the exception a failing execution of the test body raises
Raised(outcome) ==
    IF outcome = "assume" THEN "UnsatisfiedAssumption" ELSE "TestError"

\* core.py:248-255: the keyword arguments the example is called with. A
\* positional example gets a new dict; a keyword example's own dict is
\* used, and updated in place with the call's keyword arguments.
ExampleCallKwargs(ex, kw) ==
    IF ex.args # <<>>
    THEN DictUpdate(
             Zip(LastN(original_argspec_args, Len(ex.args)), ex.args), kw)
    ELSE DictUpdate(ex.kwargs, kw)

StoredAfterCall(ex, kw) ==
    IF ex.args # <<>> THEN ex
    ELSE Example(ex.args, DictUpdate(ex.kwargs, kw))

\* NextExample without reversed()
NextExampleForward == Len(hypothesis_explicit_examples) - todo + 1

\* reversed(hypothesis_explicit_examples): the next example to run
NextExample == todo

\* RunExample without the raise at the end of the except block
RunExampleNoRaise(outcome) ==
    /\ UNCHANGED <<evaluated, health, declared, given_vars, find_vars, num_vars>>
    /\ pc = "examples"
    /\ todo > 0
    /\ LET i == NextExample
           ex == hypothesis_explicit_examples[i]
       IN /\ hypothesis_explicit_examples' =
                 [hypothesis_explicit_examples EXCEPT
                      ![i] = StoredAfterCall(ex, kwargs)]
          /\ executed' = Append(executed, [index |-> i, outcome |-> outcome])
          /\ todo' = todo - 1
          /\ reports' = IF outcome = "pass" THEN reports
                        ELSE Append(reports, Report("explicit", i))
          /\ UNCHANGED <<pc, result>>
    /\ UNCHANGED <<decl_result, use_seed, settings, default_health, kwargs,
                   random, warnings, warned_random, perform_health_check,
                   last_exception, repr_for_last_exception,
                   falsifying_example, found_by, db, fetched, replayed,
                   db_log, runner, evals, run_time, repro>>

\* core.py:245-271, one iteration of the loop over the reversed examples
RunExample(outcome) ==
    /\ UNCHANGED <<evaluated, health, declared, given_vars, find_vars, num_vars>>
    /\ pc = "examples"
    /\ todo > 0
    /\ LET i == NextExample
           ex == hypothesis_explicit_examples[i]
       IN /\ hypothesis_explicit_examples' =
                 [hypothesis_explicit_examples EXCEPT
                      ![i] = StoredAfterCall(ex, kwargs)]
          /\ executed' = Append(executed, [index |-> i, outcome |-> outcome])
          /\ IF outcome = "pass"
             THEN /\ todo' = todo - 1
                  /\ UNCHANGED <<pc, reports, result>>
             ELSE /\ reports' = Append(reports, Report("explicit", i))
                  /\ result' = Raised(outcome)
                  /\ pc' = "done"
                  /\ UNCHANGED todo
    /\ UNCHANGED <<decl_result, use_seed, settings, default_health, kwargs,
                   random, warnings, warned_random, perform_health_check,
                   last_exception, repr_for_last_exception,
                   falsifying_example, found_by, db, fetched, replayed,
                   db_log, runner, evals, run_time, repro>>

RunExplicitExample == \E outcome \in ExampleOutcomes : RunExample(outcome)

\* SearchSkipped with == for <=
SearchSkippedOnlyAtZero(s) == s.max_examples = 0

\* core.py:272-273: no search at all when max_examples <= 0
SearchSkipped(s) == s.max_examples <= 0

\* core.py:272-300, 392-393, 441-443: after the last explicit example
AfterExamples ==
    /\ UNCHANGED <<evaluated, health, declared, given_vars, find_vars, num_vars>>
    /\ pc = "examples"
    /\ todo = 0
    /\ IF SearchSkipped(settings)
       THEN /\ result' = "return"
            /\ pc' = "done"
            /\ UNCHANGED <<warned_random, perform_health_check,
                           last_exception, repr_for_last_exception,
                           falsifying_example>>
       ELSE /\ warned_random' = FALSE
            /\ perform_health_check' =
                   (settings.perform_health_check /\ default_health)
            /\ last_exception' = None
            /\ repr_for_last_exception' = None
            /\ falsifying_example' = None
            /\ pc' = IF settings.database THEN "fetch" ELSE "search"
            /\ UNCHANGED result
    /\ UNCHANGED <<hypothesis_explicit_examples, decl_result, use_seed,
                   settings, default_health, kwargs, random, todo, executed,
                   reports, warnings, found_by, db, fetched, replayed,
                   db_log, runner, evals, run_time, repro>>

\* ----------------------------------------------------- evaluate_test_data
\* What one candidate evaluation can do: the test body returns None or a
\* value, raises UnsatisfiedAssumption (from the draw or the body), raises a
\* HypothesisDeprecationWarning, raises another exception, the draw runs off
\* the end of the buffer (StopTest, which is not an Exception), or an
\* exception arrives when the data is already frozen.
EvalOutcomes == {"pass", "nonnull", "assume", "deprecation", "raise",
                 "overrun", "raise_frozen"}

\* TryBlock marking the data interesting before, and without, recording
\* the traceback
TryBlockMarksFirst(outcome, s) ==
    CASE outcome = "pass" ->
             [status |-> VALID, raised |-> "none", captured |-> FALSE]
      [] outcome = "nonnull" ->
             [status |-> VALID,
              raised |-> IF s.perform_health_check
                         THEN "FailedHealthCheck" ELSE "none",
              captured |-> FALSE]
      [] outcome = "assume" ->
             [status |-> INVALID, raised |-> "StopTest", captured |-> FALSE]
      [] outcome = "deprecation" ->
             [status |-> VALID, raised |-> "HypothesisDeprecationWarning",
              captured |-> FALSE]
      [] outcome = "raise" ->
             [status |-> INTERESTING, raised |-> "StopTest",
              captured |-> FALSE]
      [] outcome = "overrun" ->
             [status |-> OVERRUN, raised |-> "StopTest", captured |-> FALSE]
      [] outcome = "raise_frozen" ->
             [status |-> OVERRUN, raised |-> "none", captured |-> TRUE]

\* core.py:399-421: the data's status after the try block and the exception
\* leaving it; mark_invalid and mark_interesting leave by StopTest.
TryBlock(outcome, s) ==
    CASE outcome = "pass" ->
             [status |-> VALID, raised |-> "none", captured |-> FALSE]
      [] outcome = "nonnull" ->
             [status |-> VALID,
              raised |-> IF s.perform_health_check
                         THEN "FailedHealthCheck" ELSE "none",
              captured |-> FALSE]
      [] outcome = "assume" ->
             [status |-> INVALID, raised |-> "StopTest", captured |-> FALSE]
      [] outcome = "deprecation" ->
             [status |-> VALID, raised |-> "HypothesisDeprecationWarning",
              captured |-> FALSE]
      [] outcome = "raise" ->
             [status |-> INTERESTING, raised |-> "StopTest",
              captured |-> TRUE]
      [] outcome = "overrun" ->
             [status |-> OVERRUN, raised |-> "StopTest", captured |-> FALSE]
      [] outcome = "raise_frozen" ->
             [status |-> OVERRUN, raised |-> "none", captured |-> TRUE]

\* core.py:396-397: the global random state is snapshotted
Snapshots == perform_health_check /\ ~warned_random

\* the test body may change the global random state in any evaluation; the
\* program only ever looks at it when health checking is active
Changes == IF perform_health_check THEN BOOLEAN ELSE {FALSE}

\* HealthCheckFires without the test of warned_random[0]
HealthCheckFiresEveryTime(changed) == perform_health_check /\ changed

\* core.py:422-428: the finally block reports the changed state
HealthCheckFires(changed) ==
    ~warned_random /\ perform_health_check /\ changed

\* core.py:284-292: fail_health_check raises when strict, and warns otherwise
FailHealthCheckRaises(s) == s.strict

\* The exception that leaves evaluate_test_data ("none": a normal return)
Leaves(outcome, changed) ==
    IF HealthCheckFires(changed) /\ FailHealthCheckRaises(settings)
    THEN "FailedHealthCheck"
    ELSE TryBlock(outcome, settings).raised

\* StopTest for the evaluated data is swallowed by the caller (core.py:448-450
\* and the engine); anything else propagates out of the wrapped test.
Propagates(exc) == exc \notin {"none", "StopTest"}

\* core.py:395-435, the effect of one call on the orchestrator's variables
evaluate_test_data(buffer, outcome, changed) ==
    /\ evals' = evals + 1
    /\ IF TryBlock(outcome, settings).captured
       THEN /\ last_exception' = evals + 1
            /\ repr_for_last_exception' = buffer
       ELSE UNCHANGED <<last_exception, repr_for_last_exception>>
    /\ warned_random' = (warned_random \/ HealthCheckFires(changed))
    /\ warnings' = IF HealthCheckFires(changed)
                      /\ ~FailHealthCheckRaises(settings)
                   THEN warnings + 1 ELSE warnings
    /\ evaluated' = [buffer |-> buffer, outcome |-> outcome,
                     status |-> TryBlock(outcome, settings).status]
    /\ health' =
           [snapshots |-> IF Snapshots THEN health.snapshots + 1
                          ELSE health.snapshots,
            failures |-> IF HealthCheckFires(changed)
                         THEN health.failures + 1 ELSE health.failures,
            first_change |-> IF changed /\ health.first_change = None
                             THEN evals + 1 ELSE health.first_change,
            failed_at |-> IF HealthCheckFires(changed)
                          THEN evals + 1 ELSE health.failed_at]

\* ---------------------------------------------------------- database replay
RECURSIVE Orderings(_)
Orderings(S) ==
    IF S = {} THEN {<<>>}
    ELSE UNION {{<<x>> \o t : t \in Orderings(S \ {x})} : x \in S}

\* core.py:444: settings.database.fetch(database_key)
Fetch ==
    /\ UNCHANGED <<evaluated, health, declared, given_vars, find_vars, num_vars>>
    /\ pc = "fetch"
    /\ fetched' \in Orderings(db)
    /\ db_log' = Append(db_log, DbCall("fetch", None))
    /\ pc' = IF db = {} THEN "search" ELSE "replay"
    /\ UNCHANGED <<hypothesis_explicit_examples, decl_result, use_seed,
                   settings, default_health, kwargs, random, todo, executed,
                   reports, warnings, result, warned_random,
                   perform_health_check, last_exception,
                   repr_for_last_exception, falsifying_example, found_by, db,
                   replayed, runner, evals, run_time, repro>>

\* DeletesReplayed deleting every buffer that is not interesting
DeletesReplayedUnlessInteresting(status) == status < INTERESTING

\* core.py:451: the replayed buffer is deleted
DeletesReplayed(status) == status < VALID

\* StopsReplay that never takes the buffer and breaks
StopsReplayNever(status) == FALSE

\* StopsReplay taking any buffer the test accepts
StopsReplayOnValid(status) == status >= VALID

\* core.py:453: the replayed buffer is the falsifying example
StopsReplay(status) == status = INTERESTING

\* core.py:444-455, one iteration of the loop over the fetched buffers
ReplayStep(outcome, changed) ==
    /\ UNCHANGED <<declared, given_vars, find_vars, num_vars>>
    /\ pc = "replay"
    /\ Len(replayed) < Len(fetched)
    /\ LET existing == fetched[Len(replayed) + 1]
           status == TryBlock(outcome, settings).status
           exc == Leaves(outcome, changed)
       IN /\ evaluate_test_data(existing, outcome, changed)
          /\ replayed' = Append(replayed,
                 [buffer |-> existing, status |-> status, raised |-> exc])
          /\ IF Propagates(exc)
             THEN /\ result' = exc
                  /\ pc' = "done"
                  /\ UNCHANGED <<db, db_log, falsifying_example, found_by>>
             ELSE /\ IF DeletesReplayed(status)
                     THEN /\ db' = db \ {existing}
                          /\ db_log' = Append(db_log, DbCall("delete", existing))
                     ELSE UNCHANGED <<db, db_log>>
                  /\ IF StopsReplay(status)
                     THEN /\ falsifying_example' = existing
                          /\ found_by' = "replay"
                          /\ pc' = "reproduce"
                     ELSE /\ UNCHANGED <<falsifying_example, found_by>>
                          /\ pc' = IF Len(replayed) + 1 = Len(fetched)
                                   THEN "search" ELSE "replay"
                  /\ UNCHANGED result
    /\ UNCHANGED <<hypothesis_explicit_examples, decl_result, use_seed,
                   settings, default_health, kwargs, random, todo, executed,
                   reports, perform_health_check, fetched, runner, run_time,
                   repro>>

Replay == \E outcome \in EvalOutcomes, changed \in Changes :
              ReplayStep(outcome, changed)

\* ------------------------------------------------------------- the engine
\* core.py:457-463: TestRunner(evaluate_test_data, settings, random).run()
StartSearch ==
    /\ UNCHANGED <<evaluated, health, declared, given_vars, find_vars, num_vars>>
    /\ pc = "search"
    /\ runner' = [runner EXCEPT !.constructed = TRUE, !.ran = TRUE]
    /\ pc' = "run"
    /\ UNCHANGED <<hypothesis_explicit_examples, decl_result, use_seed,
                   settings, default_health, kwargs, random, todo, executed,
                   reports, warnings, result, warned_random,
                   perform_health_check, last_exception,
                   repr_for_last_exception, falsifying_example, found_by, db,
                   fetched, replayed, db_log, evals, run_time, repro>>

\* The engine keeps as last_data the first data, any data of a higher status,
\* and, as it prefers, one of the same status (a smaller interesting buffer).
Keeps(r, status, prefers) ==
    \/ r.last_data = None
    \/ status > r.status
    \/ status = r.status /\ prefers

Considers(status, prefers) == Keeps(runner, status, prefers)

Preferences(status) ==
    IF runner.last_data # None /\ status = runner.status
    THEN BOOLEAN ELSE {TRUE}

\* The engine evaluates one more candidate: it calls evaluate_test_data on a
\* new TestData, swallows the StopTest of that data, counts it if valid.
EngineStep(buffer, outcome, changed, prefers) ==
    /\ UNCHANGED <<declared, given_vars, find_vars, num_vars>>
    /\ pc = "run"
    /\ runner.calls < MaxEvals
    /\ LET status == TryBlock(outcome, settings).status
           exc == Leaves(outcome, changed)
       IN /\ evaluate_test_data(buffer, outcome, changed)
          /\ IF Propagates(exc)
             THEN /\ result' = exc
                  /\ pc' = "done"
                  /\ runner' = [runner EXCEPT !.calls = @ + 1]
             ELSE /\ runner' =
                       [runner EXCEPT
                          !.calls = @ + 1,
                          !.valid_examples =
                              IF status >= VALID THEN @ + 1 ELSE @,
                          !.last_data =
                              IF Considers(status, prefers) THEN buffer ELSE @,
                          !.status =
                              IF Considers(status, prefers) THEN status ELSE @,
                          !.last_eval =
                              IF Considers(status, prefers)
                              THEN evals + 1 ELSE @]
                  /\ UNCHANGED <<result, pc>>
    /\ UNCHANGED <<hypothesis_explicit_examples, decl_result, use_seed,
                   settings, default_health, kwargs, random, todo, executed,
                   reports, perform_health_check, falsifying_example,
                   found_by, db, fetched, replayed, db_log, run_time,
                   repro>>

EngineEvaluates ==
    \E buffer \in Buffers, outcome \in EvalOutcomes, changed \in Changes :
        \E prefers \in Preferences(TryBlock(outcome, settings).status) :
            EngineStep(buffer, outcome, changed, prefers)

\* core.py:52-56, with the clock reading passed in
time_to_call_it_a_day(s, start_time, now) ==
    IF s.timeout <= 0 THEN FALSE
    ELSE now >= start_time + s.timeout

\* timed_out without the test that a timeout is set
TimedOutIgnoringUnset(s, elapsed) == elapsed >= s.timeout

\* core.py:465-468
timed_out(s, elapsed) == s.timeout > 0 /\ elapsed >= s.timeout

\* core.py:476-479
TooFewValid(s, valid_examples) ==
    valid_examples < Min(s.min_satisfying_examples, s.max_examples)

\* core.py:469-498: how the run ends when last_data is not interesting
Verdict(s, valid_examples, elapsed) ==
    IF TooFewValid(s, valid_examples)
    THEN IF timed_out(s, elapsed) THEN "Timeout" ELSE "Unsatisfiable"
    ELSE "return"

\* EngineFalsified testing for the wrong status
EngineFalsifiedWhenValid(status) == status = VALID

\* core.py:469: the engine's last_data is a failure of the test
EngineFalsified(status) == status = INTERESTING

\* SavesLastData with no save at all
SavesLastDataNever(s, status) == FALSE

\* SavesLastData saving whatever data the engine ended on
SavesLastDataAlways(s, status) == s.database

\* core.py:469-474: the buffer of an interesting last_data is saved when a
\* database is configured
SavesLastData(s, status) == EngineFalsified(status) /\ s.database

\* core.py:464-498: runner.run() has returned
AfterRun(elapsed) ==
    /\ UNCHANGED <<evaluated, health, declared, given_vars, find_vars, num_vars>>
    /\ pc = "run"
    /\ runner.calls >= 1
    /\ run_time' = elapsed
    /\ IF EngineFalsified(runner.status)
       THEN /\ falsifying_example' = runner.last_data
            /\ found_by' = "search"
            /\ pc' = "reproduce"
            /\ UNCHANGED result
       ELSE /\ result' = Verdict(settings, runner.valid_examples, elapsed)
            /\ pc' = "done"
            /\ UNCHANGED <<falsifying_example, found_by>>
    /\ IF SavesLastData(settings, runner.status)
       THEN /\ db' = db \cup {runner.last_data}
            /\ db_log' = Append(db_log, DbCall("save", runner.last_data))
       ELSE UNCHANGED <<db, db_log>>
    /\ UNCHANGED <<hypothesis_explicit_examples, decl_result, use_seed,
                   settings, default_health, kwargs, random, todo, executed,
                   reports, warnings, warned_random, perform_health_check,
                   last_exception, repr_for_last_exception, fetched, replayed,
                   runner, evals, repro>>

EngineReturns == \E elapsed \in 0 .. MaxRunTime : AfterRun(elapsed)

\* ------------------------------------------------------------ reproduction
\* What re-executing the test on TestData.for_buffer(falsifying_example) can
\* do: the draw raises UnsatisfiedAssumption before anything is printed, or
\* the call text is printed and the test body passes, raises
\* UnsatisfiedAssumption, or raises another exception.
ReproOutcomes == {"draw_assume", "pass", "assume", "raise"}

\* PrintsExample reporting only once the test body has raised
PrintsExampleAfterFailure(outcome) == outcome = "raise"

\* core.py:112-115: reify_and_execute with print_example=True reports the
\* call text once the arguments are drawn, before the test body is called
PrintsExample(outcome) == outcome # "draw_assume"

FlakyResults == {"Flaky: unreliable assumption", "Flaky: unreliable test data",
                 "Flaky: unreliable results",
                 "Flaky: unreliable values"}

\* FirstReproduction with every exception of the test body caught as the
\* assumption failure is
FirstReproductionCatchesAll(outcome) ==
    CASE outcome \in {"raise", "draw_assume", "assume"} ->
             "Flaky: unreliable assumption"
      [] outcome = "pass" -> "running"

\* FirstReproduction with no handler for the assumption failure
FirstReproductionLeaksAssumption(outcome) ==
    CASE outcome = "raise" -> "TestError"
      [] outcome \in {"draw_assume", "assume"} -> "UnsatisfiedAssumption"
      [] outcome = "pass" -> "running"

\* core.py:502-520: how the first re-execution ends the run ("running": it
\* does not, the test passed and the flaky-detecting re-execution follows)
FirstReproduction(outcome) ==
    CASE outcome = "raise" -> "TestError"
      [] outcome \in {"draw_assume", "assume"} ->
             "Flaky: unreliable assumption"
      [] outcome = "pass" -> "running"

\* core.py:500-520: the first re-execution of the falsifying example
Reproduce(outcome) ==
    /\ UNCHANGED <<evaluated, health, declared, given_vars, find_vars, num_vars>>
    /\ pc = "reproduce"
    /\ IF last_exception = None
       THEN /\ result' = "AssertionError"
            /\ pc' = "done"
            /\ UNCHANGED <<reports, repro>>
       ELSE /\ repro' = Append(repro, outcome)
            /\ reports' = reports
                 \o (IF PrintsExample(outcome)
                     THEN <<Report("falsifying", falsifying_example)>>
                     ELSE <<>>)
                 \o (IF outcome \in {"draw_assume", "assume"}
                     THEN <<Report("traceback", falsifying_example)>>
                     ELSE <<>>)
                 \o (IF FirstReproduction(outcome) = "running"
                     THEN <<Report("failed to reproduce", last_exception)>>
                     ELSE <<>>)
            /\ result' = FirstReproduction(outcome)
            /\ pc' = IF FirstReproduction(outcome) = "running"
                     THEN "reproduce again" ELSE "done"
    /\ UNCHANGED <<hypothesis_explicit_examples, decl_result, use_seed,
                   settings, default_health, kwargs, random, todo, executed,
                   warnings, warned_random, perform_health_check,
                   last_exception, repr_for_last_exception,
                   falsifying_example, found_by, db, fetched, replayed,
                   db_log, runner, evals, run_time>>

Reproduces == \E outcome \in ReproOutcomes : Reproduce(outcome)

\* test_is_flaky raising only when the call text differs: with the same
\* text test_or_flaky returns, and so does the wrapped test
TestIsFlakyOnlyOnOtherRepr(text_repr, expected_repr) ==
    IF text_repr = expected_repr
    THEN "return"
    ELSE "Flaky: unreliable values"

\* test_is_flaky handing the test back unwrapped, the test then passing
TestIsFlakyRunsTest(text_repr, expected_repr) == "return"

\* core.py:59-77: test_or_flaky always raises Flaky; the message depends on
\* whether the call text is the one recorded with the exception
test_is_flaky(text_repr, expected_repr) ==
    IF text_repr = expected_repr
    THEN "Flaky: unreliable results"
    ELSE "Flaky: unreliable values"

\* the call text of the arguments drawn again: that of the buffer, or, with
\* an unreliable strategy, another one
GarbledRepr == NBuffers + 1
TextReprs == {falsifying_example, GarbledRepr}

\* core.py:522-538: how the second re-execution, of
\* test_is_flaky(test, repr), ends ("return": test_or_flaky returned)
SecondReproduction(drawn, text_repr) ==
    IF drawn
    THEN test_is_flaky(text_repr, repr_for_last_exception)
    ELSE "Flaky: unreliable test data"

\* core.py:539-545: the third re-execution, outside any try block: an
\* assumption failure of the draw reaches the caller
ThirdReproduction(drawn, text_repr) ==
    IF drawn
    THEN test_is_flaky(text_repr, repr_for_last_exception)
    ELSE "UnsatisfiedAssumption"

\* core.py:522-545: the second re-execution and, when it returns, the third
ReproduceFlaky(drawn, text_repr) ==
    /\ UNCHANGED <<evaluated, health, declared, given_vars, find_vars, num_vars>>
    /\ pc = "reproduce again"
    /\ IF SecondReproduction(drawn, text_repr) # "return"
       THEN /\ repro' = Append(repro, IF drawn THEN "flaky" ELSE "draw_assume")
            /\ reports' = reports
                 \o (IF drawn
                     THEN <<Report("falsifying", falsifying_example)>>
                     ELSE <<>>)
            /\ result' = SecondReproduction(drawn, text_repr)
       ELSE \E again \in BOOLEAN, third_repr \in TextReprs :
               /\ repro' = repro \o <<"flaky", IF again THEN "third"
                                                ELSE "third draw_assume">>
               /\ reports' = reports
                    \o <<Report("falsifying", falsifying_example)>>
                    \o (IF again
                        THEN <<Report("falsifying", falsifying_example)>>
                        ELSE <<>>)
               /\ result' = ThirdReproduction(again, third_repr)
    /\ pc' = "done"
    /\ UNCHANGED <<hypothesis_explicit_examples, decl_result, use_seed,
                   settings, default_health, kwargs, random, todo, executed,
                   warnings, warned_random, perform_health_check,
                   last_exception, repr_for_last_exception,
                   falsifying_example, found_by, db, fetched, replayed,
                   db_log, runner, evals, run_time>>

ReproducesFlaky ==
    \E drawn \in BOOLEAN, text_repr \in TextReprs :
        ReproduceFlaky(drawn, text_repr)

\* ------------------------------------------------------------------ find()
\* the orchestrator's variables, which a find() call leaves alone
core_vars ==
    <<pc, hypothesis_explicit_examples, decl_result, use_seed, settings,
      default_health, kwargs, random, todo, executed, reports, warnings,
      result, warned_random, perform_health_check, last_exception,
      repr_for_last_exception, falsifying_example, found_by, db, fetched,
      replayed, db_log, runner, evals, run_time, repro, health, declared,
      evaluated>>

\* core.py:567-571, 616-617: the call starts; a specifier that is not a
\* SearchStrategy is an InvalidArgument
FindStarts ==
    /\ find_pc = "find"
    /\ IF ~search.strategy
       THEN /\ found' = [raised |-> "InvalidArgument", value |-> <<>>]
            /\ find_pc' = "done"
       ELSE /\ find_pc' = "run"
            /\ UNCHANGED found
    /\ UNCHANGED <<search, condition, successful_examples, finder>>
    /\ UNCHANGED <<core_vars, given_vars, num_vars>>

\* core.py:586-592, 611-612: the status template_condition leaves the data
\* with: interesting when the condition accepts the value drawn, invalid
\* when the draw raises UnsatisfiedAssumption, overrun when it runs out of
\* bytes, and valid (the initial status) otherwise
template_condition(outcome, accepted) ==
    CASE outcome.raised = "UnsatisfiedAssumption" -> INVALID
      [] outcome.raised = "StopTest" -> OVERRUN
      [] outcome.raised = "none" ->
             IF outcome.value \in accepted THEN INTERESTING ELSE VALID

\* The engine evaluates one more candidate of find(): core.py:586-612
FindStep(buffer, prefers) ==
    /\ find_pc = "run"
    /\ finder.calls < MaxEvals
    /\ LET outcome == search.draw[buffer]
           status == template_condition(outcome, condition)
       IN /\ successful_examples' =
                 IF status = INTERESTING THEN successful_examples + 1
                 ELSE successful_examples
          /\ finder' =
                 [calls |-> finder.calls + 1,
                  last_data |-> IF Keeps(finder, status, prefers)
                                THEN buffer ELSE finder.last_data,
                  status |-> IF Keeps(finder, status, prefers)
                             THEN status ELSE finder.status]
    /\ UNCHANGED <<search, condition, find_pc, found>>
    /\ UNCHANGED <<core_vars, given_vars, num_vars>>

FindEvaluates ==
    \E buffer \in Buffers, prefers \in BOOLEAN : FindStep(buffer, prefers)

\* FindResult returning whatever the engine ended on that drew a value
FindResultWhenValid(status, outcome) ==
    IF status \in {VALID, INTERESTING}
    THEN [raised |-> "none", value |-> <<outcome.value>>]
    ELSE [raised |-> "NoSuchExample", value |-> <<>>]

\* core.py:618-621: the value drawn again from the buffer of an interesting
\* last_data is returned, anything else is NoSuchExample
FindResult(status, outcome) ==
    IF status = INTERESTING
    THEN [raised |-> outcome.raised,
          value |-> IF outcome.raised = "none" THEN <<outcome.value>>
                    ELSE <<>>]
    ELSE [raised |-> "NoSuchExample", value |-> <<>>]

\* core.py:616-621: runner.run() has returned
FindReturns ==
    /\ find_pc = "run"
    /\ finder.calls >= 1
    /\ found' = FindResult(finder.status, search.draw[finder.last_data])
    /\ find_pc' = "done"
    /\ UNCHANGED <<search, condition, successful_examples, finder>>
    /\ UNCHANGED <<core_vars, given_vars, num_vars>>

\* ------------------------------------------------------ numeric strategies
\* data.draw_bytes(n, distribution): the next n bytes of a replayed buffer,
\* none when it is too short (the data is overrun), and for fresh data the
\* bytes the distribution produces
draw_bytes(d, n, distribution) ==
    IF d.for_buffer
    THEN IF Len(d.buffer) >= n THEN {SubSeq(d.buffer, 1, n)} ELSE {}
    ELSE distribution

\* d.integer_range(data, lower, upper), as a function of the byte drawn:
\* a value of lower .. upper
integer_range(bytes, lower, upper) ==
    lower + (bytes[1] % (upper - lower + 1))

\* numbers.py:107-113: BoundedIntStrategy(start, end)
NewBoundedIntStrategy(start, end) ==
    /\ strategy.kind = "none"
    /\ strategy' = Strategy("BoundedIntStrategy", start, end, FALSE, FALSE,
                            IF start > end THEN "ValueError" ELSE "none")
    /\ UNCHANGED <<data, returned>>
    /\ UNCHANGED <<core_vars, given_vars, find_vars>>

ConstructsBoundedInt ==
    \E start \in Ints, end \in Ints : NewBoundedIntStrategy(start, end)

\* BoundedIntDraw with a range that is one too long
BoundedIntDrawPastEnd(s, bytes) == integer_range(bytes, s.start, s.end + 1)

\* numbers.py:118-119: BoundedIntStrategy.do_draw on the byte drawn
BoundedIntDraw(s, bytes) == integer_range(bytes, s.start, s.end)

\* numbers.py:118-119: one draw from a BoundedIntStrategy
DrawsBoundedInt ==
    /\ strategy.kind = "BoundedIntStrategy"
    /\ strategy.raised = "none"
    /\ returned = [raised |-> "none", value |-> <<>>]
    /\ LET drawn == draw_bytes(data, 1, IntBytes)
       IN IF drawn = {}
          THEN /\ returned' = [raised |-> "StopTest", value |-> <<>>]
               /\ UNCHANGED data
          ELSE \E bytes \in drawn :
                   /\ returned' =
                          [raised |-> "none",
                           value |-> <<BoundedIntDraw(strategy, bytes)>>]
                   /\ data' = [data EXCEPT !.buffer = bytes]
    /\ UNCHANGED strategy
    /\ UNCHANGED <<core_vars, given_vars, find_vars>>

\* An IEEE-754 binary64: the sign bit, the 11 exponent bits, and the 52
\* fraction bits as their top 4 bits followed by 6 bytes.
Float(sign, exponent, fraction) ==
    [sign |-> sign, exponent |-> exponent, fraction |-> fraction]

Negated(f) == [f EXCEPT !.sign = 1 - f.sign]

\* numbers.py:128-133, the 16 literals in their order
PositiveNastyFloats == <<
      Float(0, 0, <<0, 0, 0, 0, 0, 0, 0>>),
      Float(0, 1022, <<0, 0, 0, 0, 0, 0, 0>>),
      Float(0, 1021, <<5, 85, 85, 85, 85, 85, 85>>),
      Float(0, 1046, <<3, 18, 208, 0, 0, 0, 0>>),
      Float(0, 1006, <<4, 248, 181, 136, 227, 104, 241>>),
      Float(0, 897, <<0, 0, 0, 0, 10, 99, 155>>),
      Float(0, 1, <<0, 0, 0, 0, 0, 0, 0>>),
      Float(0, 2046, <<15, 255, 255, 255, 255, 255, 255>>),
      Float(0, 1150, <<15, 255, 255, 223, 240, 112, 54>>),
      Float(0, 1076, <<0, 0, 0, 0, 0, 0, 0>>),
      Float(0, 1022, <<15, 255, 235, 7, 74, 119, 29>>),
      Float(0, 1024, <<0, 0, 5, 62, 45, 98, 57>>),
      Float(0, 1000, <<0, 0, 0, 0, 28, 95, 104>>),
      Float(0, 971, <<0, 0, 0, 0, 0, 0, 0>>),
      Float(0, 2047, <<0, 0, 0, 0, 0, 0, 0>>),
      Float(0, 2047, <<8, 0, 0, 0, 0, 0, 0>>)
    >>

\* numbers.py:134-135: NASTY_FLOATS.extend([-x for x in NASTY_FLOATS])
NASTY_FLOATS ==
    PositiveNastyFloats
    \o [i \in 1 .. Len(PositiveNastyFloats) |->
            Negated(PositiveNastyFloats[i])]

\* math.isinf and math.isnan
isinf(f) ==
    f.exponent = 2047 /\ \A i \in 1 .. Len(f.fraction) : f.fraction[i] = 0
isnan(f) ==
    f.exponent = 2047 /\ \E i \in 1 .. Len(f.fraction) : f.fraction[i] # 0

\* struct.pack(b'!d', f) and struct.unpack(b'!d', bytes)[0]
pack(f) ==
    <<f.sign * 128 + (f.exponent \div 16),
      (f.exponent % 16) * 16 + f.fraction[1]>> \o Tail(f.fraction)
unpack(bytes) ==
    Float(bytes[1] \div 128,
          (bytes[1] % 128) * 16 + (bytes[2] \div 16),
          <<bytes[2] % 16>> \o SubSeq(bytes, 3, 8))

\* numbers.py:166-171: WrapperFloatStrategy.permitted
permitted(s, f) ==
    IF ~s.allow_infinity /\ isinf(f) THEN FALSE
    ELSE IF ~s.allow_nan /\ isnan(f) THEN FALSE
    ELSE TRUE

\* numbers.py:174-183: what draw_float_bytes can return: a permitted member
\* of NASTY_FLOATS, packed, or 8 random bytes
draw_float_bytes(s) ==
    {pack(NASTY_FLOATS[i]) :
         i \in {j \in 1 .. Len(NASTY_FLOATS) : permitted(s, NASTY_FLOATS[j])}}
    \cup FloatBytes

\* numbers.py:141-147: FloatStrategy.__init__ sets the two flags that
\* WrapperFloatStrategy.permitted reads
NewFloatStrategy(allow_infinity, allow_nan) ==
    /\ strategy.kind = "none"
    /\ strategy' = Strategy("WrapperFloatStrategy", 0, 0, allow_infinity,
                            allow_nan, "none")
    /\ UNCHANGED <<data, returned>>
    /\ UNCHANGED <<core_vars, given_vars, find_vars>>

ConstructsFloat ==
    \E allow_infinity \in BOOLEAN, allow_nan \in BOOLEAN :
        NewFloatStrategy(allow_infinity, allow_nan)

\* numbers.py:173-184: one draw from a WrapperFloatStrategy
DrawsFloat ==
    /\ strategy.kind = "WrapperFloatStrategy"
    /\ returned = [raised |-> "none", value |-> <<>>]
    /\ LET drawn == draw_bytes(data, 8, draw_float_bytes(strategy))
       IN IF drawn = {}
          THEN /\ returned' = [raised |-> "StopTest", value |-> <<>>]
               /\ UNCHANGED data
          ELSE \E bytes \in drawn :
                   /\ returned' =
                          [raised |-> "none", value |-> <<unpack(bytes)>>]
                   /\ data' = [data EXCEPT !.buffer = bytes]
    /\ UNCHANGED strategy
    /\ UNCHANGED <<core_vars, given_vars, find_vars>>

\* numbers.py:74-77: WideRangeIntStrategy()
ConstructsWideRangeInt ==
    /\ strategy.kind = "none"
    /\ strategy' =
           Strategy("WideRangeIntStrategy", 0, 0, FALSE, FALSE, "none")
    /\ UNCHANGED <<data, returned>>
    /\ UNCHANGED <<core_vars, given_vars, find_vars>>

\* the data once its first n bytes are drawn
Consumed(d, n) ==
    IF d.for_buffer
    THEN ForBuffer(SubSeq(d.buffer, n + 1, Len(d.buffer)))
    ELSE d

\* numbers.py:84-87: random.randint(0, n * 8 - 1), up to MaxBits
RandInts(n) == {k \in 0 .. n * 8 - 1 : k <= MaxBits}

\* numbers.py:89: random.getrandbits(k)
getrandbits(k) == 0 .. 2 ^ k - 1

\* numbers.py:94: r.to_bytes(n, 'big', signed=True), for -256 < r < 256: a
\* negative r is written in two's complement
to_bytes(r, n) ==
    [i \in 1 .. n |->
        IF r >= 0
        THEN IF i = n THEN r ELSE 0
        ELSE IF i = n THEN 256 + r ELSE 255]

\* numbers.py:82-94: every (k, bytes) one call of distribution(random, n)
\* can choose and return
distribution(n) ==
    UNION {{[k |-> k,
             bytes |-> to_bytes(IF flip = 1 THEN 0 - r ELSE r, n)] :
                r \in (IF k > 0 THEN getrandbits(k) ELSE {0}),
                flip \in 0 .. 1} :
              k \in {IF k1 < k2 THEN k1 ELSE k2 :
                        k1 \in RandInts(n), k2 \in RandInts(n)}}

\* An integer of any size: its sign, and its magnitude as base-256 digits,
\* most significant first, without leading zeros (-0 is 0)
RECURSIVE Digits(_)
Digits(byt) ==
    IF byt = <<>> THEN <<>>
    ELSE IF byt[1] = 0 THEN Digits(Tail(byt)) ELSE byt

WideInt(negative, magnitude) ==
    [negative |-> negative /\ magnitude # <<>>, magnitude |-> magnitude]

\* numbers.py:97: int.from_bytes(byt, 'big', signed=False)
from_bytes(byt) == WideInt(FALSE, Digits(byt))

\* numbers.py:95-100: the integer made of the sign byte and the 16 bytes
WideRangeDraw(sign, byt) ==
    WideInt(sign[1] % 2 = 1, from_bytes(byt).magnitude)

\* the k that a call of distribution returning byt has chosen (None: the
\* bytes are replayed, distribution is not called)
Chosen(d, byt) ==
    IF d.for_buffer THEN {None}
    ELSE {x.k : x \in {y \in distribution(size) : y.bytes = byt}}

\* numbers.py:79-100: one draw from a WideRangeIntStrategy
DrawsWideRangeInt ==
    /\ strategy.kind = "WideRangeIntStrategy"
    /\ returned = [raised |-> "none", value |-> <<>>]
    /\ LET first == draw_bytes(data, 1, IntBytes)
           rest == draw_bytes(Consumed(data, 1), size,
                              {x.bytes : x \in distribution(size)})
       IN IF first = {} \/ rest = {}
          THEN /\ returned' = [raised |-> "StopTest", value |-> <<>>]
               /\ UNCHANGED data
          ELSE \E sign \in first, byt \in rest :
                   \E k \in Chosen(data, byt) :
                       /\ returned' =
                              [raised |-> "none",
                               value |-> <<[k |-> k,
                                            r |-> WideRangeDraw(sign, byt)]>>]
                       /\ data' = [data EXCEPT !.buffer = sign \o byt]
    /\ UNCHANGED strategy
    /\ UNCHANGED <<core_vars, given_vars, find_vars>>

\* ------------------------------------------------------------ specification
\* one call of the wrapped test, of a test that declares no explicit example
Next ==
    \/ Invoke
    \/ AfterExamples
    \/ Fetch
    \/ Replay
    \/ StartSearch
    \/ EngineEvaluates
    \/ EngineReturns
    \/ Reproduces
    \/ ReproducesFlaky

\* the decoration with example() and one call of the wrapped test
NextExamples ==
    \/ DeclareExample
    \/ RunExplicitExample
    \/ Next

Spec == Init /\ [][Next]_vars

SpecSeed == InitSeed /\ [][Next]_vars

SpecExamples == InitExamples /\ [][NextExamples]_vars

\* the decoration with given() and example(), in either order, and one call
\* of what given() returned
NextGiven ==
    \/ given
    \/ DeclareExample
    \/ Invoke
    \/ RunExplicitExample
    \/ AfterExamples

SpecGiven == InitGiven /\ [][NextGiven]_vars

\* one call of find()
NextFind ==
    \/ FindStarts
    \/ FindEvaluates
    \/ FindReturns

SpecFind == InitFind /\ [][NextFind]_vars

\* a numeric strategy is constructed and drawn from once
NextNumbers ==
    \/ ConstructsBoundedInt
    \/ DrawsBoundedInt
    \/ ConstructsWideRangeInt
    \/ DrawsWideRangeInt
    \/ ConstructsFloat
    \/ DrawsFloat

SpecNumbers == InitNumbers /\ [][NextNumbers]_vars

\* ================================================================== claims
\* the explicit examples run so far all passed
AllExamplesPassed == \A k \in 1 .. Len(executed) : executed[k].outcome = "pass"

\* the call has gone beyond the explicit examples and the max_examples test
PastExamples ==
    pc \in {"fetch", "replay", "search", "run", "reproduce",
            "reproduce again"}
    \/ db_log # <<>> \/ evals > 0 \/ runner.constructed

\* C1: the random source of a call is chosen by first match: the seed
\* override when one is set, also when derandomize is true; else the digest
\* of the test function when derandomize is true; else a fresh random seed.
C1_SeedFirstMatch ==
    pc # "declare" =>
        /\ use_seed # None =>
               random.source = "seed" /\ random.seed = use_seed
        /\ (use_seed = None /\ settings.derandomize) =>
               random.source = "function_digest"
               /\ random.seed = function_digest
        /\ (use_seed = None /\ ~settings.derandomize) =>
               random.source = "new_random"

C1_Witness ==
    /\ pc = "done"
    /\ use_seed = 0
    /\ settings.derandomize
    /\ random = [source |-> "seed", seed |-> 0]

\* C2: the explicit examples are executed in reverse declaration order, each
\* once, and all of them have been executed before the database is fetched,
\* a candidate is evaluated or the engine is constructed (a call that an
\* example ends by raising stops there: C3).
C2_ExamplesReversedFirst ==
    /\ \A k \in 1 .. Len(executed) :
           executed[k].index = Len(hypothesis_explicit_examples) - k + 1
    /\ Len(executed) <= Len(hypothesis_explicit_examples)
    /\ (PastExamples \/ result = "return") =>
           /\ Len(executed) = Len(hypothesis_explicit_examples)
           /\ AllExamplesPassed

C2_Witness ==
    /\ Len(hypothesis_explicit_examples) = 2
    /\ hypothesis_explicit_examples[1] # hypothesis_explicit_examples[2]
    /\ executed = <<[index |-> 2, outcome |-> "pass"],
                    [index |-> 1, outcome |-> "pass"]>>
    /\ evals > 0
    /\ db_log # <<>>

\* C3: when an explicit example raises, its 'Falsifying example' text is
\* reported and the same error ends the call; the example is not executed
\* again, no later example runs, and the database, the engine and the
\* reproduction are not entered.
C3_ExampleFailureEndsCall ==
    \A k \in 1 .. Len(executed) :
        executed[k].outcome # "pass" =>
            /\ k = Len(executed)
            /\ \A j \in 1 .. Len(executed) :
                   executed[j].index = executed[k].index => j = k
            /\ reports = <<Report("explicit", executed[k].index)>>
            /\ pc = "done"
            /\ result = (IF executed[k].outcome = "assume"
                         THEN "UnsatisfiedAssumption" ELSE "TestError")
            /\ db_log = <<>>
            /\ evals = 0
            /\ ~runner.constructed /\ ~runner.ran
            /\ repro = <<>>
            /\ falsifying_example = None

C3_Witness ==
    /\ Len(hypothesis_explicit_examples) = 2
    /\ executed = <<[index |-> 2, outcome |-> "raise"]>>
    /\ settings.max_examples > 0
    /\ settings.database
    /\ pc = "done"
    /\ result = "TestError"

\* C4: with max_examples <= 0 and every explicit example passing, the call
\* returns right after the examples: no database call, no engine, no
\* evaluation, hence no Unsatisfiable, Timeout or Flaky.
C4_NoSearchWhenNoExamplesWanted ==
    (settings.max_examples <= 0 /\ pc \notin {"declare", "examples"}
     /\ AllExamplesPassed) =>
        /\ pc = "done"
        /\ result = "return"
        /\ db_log = <<>>
        /\ fetched = <<>>
        /\ ~runner.constructed /\ ~runner.ran
        /\ evals = 0
        /\ repro = <<>>

C4_Witness ==
    /\ settings.max_examples < 0
    /\ settings.database /\ db # {}
    /\ Len(executed) = 2
    /\ AllExamplesPassed
    /\ pc = "done"
    /\ result = "return"

\* the replay evaluation k handed the loop a classification (it was not
\* ended by a FailedHealthCheck or deprecation warning raised out of it)
Classified(k) == replayed[k].raised \in {"none", "StopTest"}

IsFalsifyingReport(r) == r.kind = "falsifying"

C6_NotReproducedIsFlaky ==
    (repro # <<>> /\ repro[1] = "pass") =>
        /\ falsifying_example # None
        /\ \/ pc = "reproduce again" /\ result = "running"
           \/ pc = "done" /\ result \in FlakyResults

C6_Witness ==
    /\ found_by = "search"
    /\ repro = <<"pass", "flaky">>
    /\ pc = "done"
    /\ result = "Flaky: unreliable results"

\* C7: when the first re-execution raises an exception that is not an
\* assumption failure, that exception ends the call: no Flaky, no 'Failed
\* to reproduce' report, no second re-execution.
C7_ReproducedErrorPropagates ==
    (repro # <<>> /\ repro[1] = "raise") =>
        /\ pc = "done"
        /\ result = "TestError"
        /\ repro = <<"raise">>
        /\ \A i \in 1 .. Len(reports) : reports[i].kind # "failed to reproduce"
        /\ reports[Len(reports)] = Report("falsifying", falsifying_example)

C7_Witness ==
    /\ found_by = "replay"
    /\ repro = <<"raise">>
    /\ result = "TestError"
    /\ Len(reports) = 1

EngineFoundNothing == run_time # None /\ runner.status # INTERESTING

\* C9: when the engine returns with a last_data that is not interesting and
\* fewer valid examples than min(min_satisfying_examples, max_examples), the
\* call raises Timeout exactly when timeout > 0 and the elapsed time is at
\* least timeout, and Unsatisfiable otherwise; with at least that many valid
\* examples it returns.
C9_VerdictWithoutFailure ==
    EngineFoundNothing =>
        LET needed == IF settings.min_satisfying_examples
                            <= settings.max_examples
                      THEN settings.min_satisfying_examples
                      ELSE settings.max_examples
            late == settings.timeout > 0 /\ run_time >= settings.timeout
        IN /\ pc = "done"
           /\ runner.valid_examples < needed =>
                  /\ result \in {"Timeout", "Unsatisfiable"}
                  /\ result = "Timeout" <=> late
           /\ runner.valid_examples >= needed => result = "return"
           /\ settings.timeout <= 0 => result # "Timeout"

C9_Witness ==
    /\ EngineFoundNothing
    /\ settings.timeout = 1 /\ run_time = 1
    /\ settings.min_satisfying_examples = 3
    /\ runner.valid_examples = 1
    /\ result = "Timeout"

\* the four outcomes of a run
NoFailure == result = "return" /\ falsifying_example = None
TimedOut == result = "Timeout"
Unsatisfiable == result = "Unsatisfiable"
Falsified ==
    falsifying_example # None /\ result \in {"TestError"} \cup FlakyResults

Outcomes ==
    (IF NoFailure THEN 1 ELSE 0) + (IF TimedOut THEN 1 ELSE 0)
    + (IF Unsatisfiable THEN 1 ELSE 0) + (IF Falsified THEN 1 ELSE 0)

SawInteresting ==
    \/ runner.status = INTERESTING
    \/ \E k \in 1 .. Len(replayed) :
           replayed[k].status = INTERESTING /\ Classified(k)

\* what C10 says of a finished run
OneOutcome ==
    /\ Outcomes = 1
    /\ (TimedOut \/ Unsatisfiable) => ~SawInteresting
    /\ (NoFailure \/ TimedOut \/ Unsatisfiable) =>
           repro = <<>> /\ falsifying_example = None

\* C10 as stated: a run past the explicit examples, with max_examples > 0
\* and no health-check abort, has exactly one of the four outcomes.
C10_OneOutcomeUnlessHealthAbort ==
    (pc = "done" /\ PastExamples /\ settings.max_examples > 0
     /\ result # "FailedHealthCheck") => OneOutcome

\* C10 as amended: a run past the explicit examples, with max_examples > 0,
\* that neither a health-check failure nor a deprecation warning raised by
\* the test aborts, has exactly one of the four outcomes; Timeout and
\* Unsatisfiable are never raised once an interesting last_data or replayed
\* buffer was seen, and a run that reports NoFailure, TimedOut or
\* Unsatisfiable never enters the reproduction.
C10_OneOutcomeUnlessAborted ==
    (pc = "done" /\ PastExamples /\ settings.max_examples > 0
     /\ result \notin {"FailedHealthCheck", "HypothesisDeprecationWarning"})
        => OneOutcome

C10_Witness ==
    /\ pc = "done"
    /\ Len(replayed) = 2
    /\ runner.calls = 2
    /\ Unsatisfiable
    /\ Outcomes = 1

\* the step is a call of example(): the decoration goes on, given() is not
\* what was applied
IsExampleCall == pc = "declare" /\ pc' = "declare" /\ invalid' = invalid

\* the call of example() mixes positional and keyword arguments, or has none
Malformed(call) ==
    \/ call.args # <<>> /\ call.kwargs # {}
    \/ call.args = <<>> /\ call.kwargs = {}

\* C15: an example() call with both positional and keyword arguments, or
\* with no argument, raises InvalidArgument and leaves the list of explicit
\* examples as it was; any other call appends its Example to the list.
C15_MalformedExampleRegistersNothing ==
    [][(IsExampleCall /\ declared' # <<>>) =>
          IF Malformed(declared'[1])
          THEN /\ decl_result' = "InvalidArgument"
               /\ UNCHANGED hypothesis_explicit_examples
          ELSE /\ decl_result' = "accepted"
               /\ hypothesis_explicit_examples' =
                      Append(hypothesis_explicit_examples, declared'[1])]_vars

C15_Witness ==
    /\ pc = "declare"
    /\ decl_result = "InvalidArgument"
    /\ declared = <<Example(<<1>>, {<<"y", 2>>})>>
    /\ hypothesis_explicit_examples = <<Example(<<1>>, {})>>

\* C16: an UnsatisfiedAssumption raised by the test body never ends the call
\* of the wrapped test, in any phase; in the reproduction it becomes a Flaky
\* error.
C16_AssumptionNeverSurfaces ==
    /\ result # "UnsatisfiedAssumption"
    /\ (pc = "done" /\ repro # <<>>
        /\ repro[Len(repro)] \in {"assume", "draw_assume"}) =>
           result \in FlakyResults

\* C17: a health-check failure (the global random state changed across an
\* evaluation, or the test returned a value while health checking is
\* enabled) is raised as FailedHealthCheck when settings.strict is true and
\* only warned about, the run going on, when it is false.
C17_EscalatedByStrict ==
    /\ result = "FailedHealthCheck" => settings.strict
    /\ (health.failures > 0 /\ settings.strict) =>
           result = "FailedHealthCheck"
    /\ (health.failures > 0 /\ ~settings.strict) => warnings > 0

\* C18: in one run, replay and search together, the random-state health
\* check fails at most once, and at the first evaluation across which the
\* state changed while health checking is active; evaluations after that
\* one take no snapshot and report nothing, and until then every evaluation
\* takes one.
C18_RandomStateReportedOnce ==
    /\ health.failures <= 1
    /\ health.failures = 1 <=> health.first_change # None
    /\ health.failures = 1 =>
           /\ health.failed_at = health.first_change
           /\ health.snapshots = health.failed_at
           /\ warned_random
           /\ warnings = (IF settings.strict THEN 0 ELSE 1)
           /\ settings.strict =>
                  /\ pc = "done" /\ result = "FailedHealthCheck"
                  /\ evals = health.failed_at
    /\ health.failures = 0 =>
           /\ warnings = 0
           /\ health.snapshots = (IF perform_health_check THEN evals ELSE 0)

C18_Witness ==
    /\ health.failures = 1
    /\ health.first_change = 2
    /\ health.snapshots = 2
    /\ warnings = 1
    /\ Len(replayed) = 2
    /\ runner.calls = 2
    /\ evals = 4

\* the database was asked to delete the buffer
Deleted(buffer) ==
    \E i \in 1 .. Len(db_log) : db_log[i] = DbCall("delete", buffer)

\* C20 as stated: a stored buffer that replay evaluated is deleted from the
\* database if and only if its classification after the evaluation is below
\* valid.
C20_DeletedIffBelowValid ==
    \A k \in 1 .. Len(replayed) :
        Deleted(replayed[k].buffer) <=> replayed[k].status < VALID

\* C20 as amended: a stored buffer whose evaluation comes back to the replay
\* loop is deleted if and only if its classification is below valid; a
\* buffer whose evaluation a FailedHealthCheck or a deprecation warning ends
\* is not deleted, whatever its classification, and ends the call.
C20_DeletedIffBelowValidAndReturned ==
    \A k \in 1 .. Len(replayed) :
        /\ Classified(k) =>
               /\ Deleted(replayed[k].buffer) <=> replayed[k].status < VALID
               /\ (replayed[k].status < VALID /\ run_time = None) =>
                      replayed[k].buffer \notin db
               /\ (replayed[k].status >= VALID /\ run_time = None) =>
                      replayed[k].buffer \in db
        /\ ~Classified(k) =>
               /\ ~Deleted(replayed[k].buffer)
               /\ replayed[k].buffer \in db
               /\ k = Len(replayed)
               /\ pc = "done"

C20_Witness ==
    /\ Len(replayed) = 2
    /\ replayed[1].status = INVALID /\ Classified(1)
    /\ replayed[2].status = VALID /\ Classified(2)
    /\ db = {replayed[2].buffer}
    /\ db_log = <<DbCall("fetch", None), DbCall("delete", replayed[1].buffer)>>

\* what C19 calls a malformed configuration of the decorator
MalformedDecoration ==
    \/ generator.arguments = 0 /\ generator.kwargs = {}
    \/ generator.arguments > 0 /\ generator.kwargs # {}
    \/ generator.arguments > Len(test_argspec.args)
    \/ generator.arguments > 0
       /\ (test_argspec.varargs \/ test_argspec.keywords)
    \/ /\ \E k \in generator.kwargs :
              \A i \in 1 .. Len(test_argspec.args) : test_argspec.args[i] # k
       /\ ~test_argspec.keywords
    \/ test_argspec.defaults

\* C19: with a malformed configuration the decoration does not raise, and
\* the call of the returned function raises InvalidArgument without running
\* the test body, an explicit example, the database replay or the search.
C19_MalformedDecorationRaisesOnCall ==
    MalformedDecoration =>
        /\ pc \in {"declare", "done"}
        /\ pc = "declare" => result = "running"
        /\ invalid # "none"
        /\ pc = "done" => result = "InvalidArgument"
        /\ executed = <<>>
        /\ reports = <<>>
        /\ evals = 0
        /\ db_log = <<>>
        /\ ~runner.constructed /\ ~runner.ran
        /\ repro = <<>>

C19_Witness ==
    /\ generator = Generator(0, {"y"})
    /\ test_argspec = ArgSpec(FALSE, FALSE, TRUE)
    /\ invalid = "Cannot apply @given to a function with defaults."
    /\ Len(hypothesis_explicit_examples) = 1
    /\ pc = "done"
    /\ result = "InvalidArgument"

\* C14: find(strategy, condition), with a condition that raises nothing,
\* either returns the value drawn from the engine's final buffer, which is
\* interesting and whose value the condition accepts, or raises
\* NoSuchExample, and that exactly when the final data is not interesting;
\* it ends with no other error, so never with Unsatisfiable or Timeout.
C14_FindReturnsOrNoSuchExample ==
    (find_pc = "done" /\ search.strategy) =>
        /\ found.raised \in {"none", "NoSuchExample"}
        /\ found.raised = "NoSuchExample" <=> finder.status # INTERESTING
        /\ found.raised = "none" =>
               /\ found.value = <<search.draw[finder.last_data].value>>
               /\ found.value[1] \in condition
               /\ successful_examples >= 1

C14_Witness ==
    /\ find_pc = "done"
    /\ finder.calls = 2
    /\ finder.last_data = 2
    /\ search.strategy
    /\ search.draw[1] = Drawn(10)
    /\ search.draw[2] = Drawn(20)
    /\ condition = {20}
    /\ found = [raised |-> "none", value |-> <<20>>]

\* C11: constructing a bounded integer strategy with start > end fails
\* with InvalidArgument, and with start <= end it succeeds.
C11_BadRangeIsInvalidArgument ==
    strategy.kind = "BoundedIntStrategy" =>
        /\ strategy.start > strategy.end =>
               strategy.raised = "InvalidArgument"
        /\ strategy.start <= strategy.end => strategy.raised = "none"

\* C12: whatever bytes the data supplies, a value drawn from a bounded
\* integer strategy constructed with start <= end lies in start .. end.
C12_BoundedDrawInRange ==
    (strategy.kind = "BoundedIntStrategy" /\ strategy.start <= strategy.end
     /\ returned.value # <<>>) =>
        /\ strategy.start <= returned.value[1]
        /\ returned.value[1] <= strategy.end
        /\ returned.raised = "none"

C12_Witness ==
    /\ strategy.kind = "BoundedIntStrategy"
    /\ strategy.start = -MaxInt /\ strategy.end = 1
    /\ data = ForBuffer(<<MaxByte>>)
    /\ returned = [raised |-> "none", value |-> <<1>>]

\* C13: a float strategy with allow_nan and allow_infinity both false never
\* returns NaN or an infinity from a draw, whether the bytes come from the
\* catalogue of boundary values, are 8 random bytes, or are replayed.
C13_NoForbiddenFloat ==
    (strategy.kind = "WrapperFloatStrategy" /\ ~strategy.allow_nan
     /\ ~strategy.allow_infinity /\ returned.value # <<>>) =>
        /\ ~isnan(returned.value[1])
        /\ ~isinf(returned.value[1])

\* C21: a buffer the engine ended on as interesting is saved, when a
\* database is configured, before the reproduction starts, and it stays
\* stored to the end of the run, however the reproduction ends.
C21_FalsifyingBufferSaved ==
    (found_by = "search" /\ settings.database) =>
        /\ falsifying_example \in db
        /\ db_log[Len(db_log)] = DbCall("save", falsifying_example)
        /\ pc \in {"reproduce", "reproduce again", "done"}

C21_Witness ==
    /\ found_by = "search"
    /\ settings.database
    /\ fetched = <<>>
    /\ pc = "done"
    /\ result \in FlakyResults
    /\ db = {falsifying_example}

\* the positions of the save calls in the database log
Saves == {i \in 1 .. Len(db_log) : db_log[i].op = "save"}

\* C29: the database is written in two ways only: a delete of the buffer
\* that replay has just evaluated, and at most one save, made after the
\* engine ended on an interesting last_data; a run that ends with NoFailure,
\* Unsatisfiable or Timeout, or whose falsifying buffer came from replay,
\* makes no save.
C29_DatabaseWrites ==
    /\ \A i \in 1 .. Len(db_log) :
           /\ db_log[i].op \in {"fetch", "delete", "save"}
           /\ db_log[i].op = "fetch" => i = 1
           /\ db_log[i].op = "delete" =>
                  /\ i - 1 \in 1 .. Len(replayed)
                  /\ \E k \in 1 .. Len(replayed) :
                         /\ replayed[k].buffer = db_log[i].buffer
                         /\ replayed[k].status < VALID
                  /\ \A j \in i + 1 .. Len(db_log) : db_log[j].op # "fetch"
           /\ db_log[i].op = "save" =>
                  /\ i = Len(db_log)
                  /\ run_time # None
                  /\ runner.status = INTERESTING
                  /\ db_log[i].buffer = runner.last_data
                  /\ found_by = "search"
    /\ Cardinality(Saves) <= 1
    /\ (NoFailure \/ TimedOut \/ Unsatisfiable) => Saves = {}
    /\ found_by = "replay" => Saves = {}

C29_Witness ==
    /\ Len(replayed) = 2
    /\ db_log = <<DbCall("fetch", None), DbCall("delete", replayed[1].buffer),
                  DbCall("delete", replayed[2].buffer),
                  DbCall("save", runner.last_data)>>
    /\ pc = "done"

\* C22: an assumption failure while the falsifying buffer is re-executed,
\* in the first reproduction or in the second, flaky-detecting one, ends the
\* run with a Flaky error (unreliable assumption, unreliable test data);
\* the assumption failure does not reach the caller.
C22_AssumptionInReproductionIsFlaky ==
    /\ (Len(repro) >= 1 /\ repro[1] \in {"assume", "draw_assume"}) =>
           /\ pc = "done"
           /\ Len(repro) = 1
           /\ result = "Flaky: unreliable assumption"
    /\ (Len(repro) >= 2 /\ repro[2] = "draw_assume") =>
           /\ pc = "done"
           /\ Len(repro) = 2
           /\ result = "Flaky: unreliable test data"
    /\ repro # <<>> => result # "UnsatisfiedAssumption"

C22_Witness ==
    /\ repro = <<"pass", "draw_assume">>
    /\ pc = "done"
    /\ result = "Flaky: unreliable test data"

\* C26: once a falsifying buffer is established, the wrapped test (run by
\* the default executor) does not return normally: the run ends with the
\* exception of the re-execution or with a Flaky error, and the third,
\* unguarded reproduction call is not reached.
C26_FalsifiedNeverReturns ==
    falsifying_example # None =>
        /\ result # "return"
        /\ pc = "done" => result \in {"TestError"} \cup FlakyResults
        /\ Len(repro) <= 2
        /\ \A i \in 1 .. Len(repro) :
               repro[i] \notin {"third", "third draw_assume"}

C26_Witness ==
    /\ falsifying_example # None
    /\ pc = "done"
    /\ repro = <<"pass", "flaky">>
    /\ result = "Flaky: unreliable results"

\* C23: in every candidate evaluation, an assumption failure marks the data
\* invalid and captures no traceback; another exception (not a health-check
\* failure, not a deprecation warning) captures the traceback and the call
\* text and marks the data interesting unless it is frozen; the data is
\* never marked interesting without a traceback captured in that evaluation.
C23_Classification ==
    [][evals' = evals + 1 =>
          /\ evaluated'.outcome = "assume" =>
                 /\ evaluated'.status = INVALID
                 /\ UNCHANGED <<last_exception, repr_for_last_exception>>
          /\ evaluated'.outcome \in {"raise", "raise_frozen"} =>
                 /\ last_exception' = evals'
                 /\ repr_for_last_exception' = evaluated'.buffer
                 /\ evaluated'.status =
                        IF evaluated'.outcome = "raise" THEN INTERESTING
                        ELSE OVERRUN
          /\ evaluated'.status = INTERESTING =>
                 /\ last_exception' = evals'
                 /\ repr_for_last_exception' = evaluated'.buffer]_vars

C23_Witness ==
    /\ evals = 2
    /\ evaluated.outcome = "raise_frozen"
    /\ last_exception = 2
    /\ runner.status = INTERESTING
    /\ runner.last_eval = 1

\* C25: whenever the reproduction phase is reached, with the falsifying
\* buffer set by replay or by the engine, a traceback has been captured: the
\* assertion that last_exception[0] is not None does not fail.
C25_TracebackAtReproduction ==
    /\ (falsifying_example # None \/ repro # <<>>
           \/ pc \in {"reproduce", "reproduce again"}) =>
           /\ last_exception # None
           /\ repr_for_last_exception # None
    /\ result # "AssertionError"

C25_Witness ==
    /\ pc = "reproduce again"
    /\ found_by = "replay"
    /\ last_exception = 1
    /\ Len(replayed) = 1

\* C28: at entry to the reproduction phase the captured traceback and call
\* text are those recorded while the buffer chosen as the falsifying example
\* was evaluated, in replay or as the engine's last_data, and not those of
\* another candidate of the run.
C28_TracebackOfFalsifyingExample ==
    pc = "reproduce" =>
        /\ repr_for_last_exception = falsifying_example
        /\ found_by = "replay" =>
               /\ last_exception = Len(replayed)
               /\ replayed[Len(replayed)].buffer = falsifying_example
        /\ found_by = "search" => runner.last_data = falsifying_example

\* C27: a call of the wrapped test, with any keyword arguments, leaves the
\* stored explicit examples as they were declared: every example keeps its
\* positional tuple and its keyword mapping, so that a second call runs the
\* examples with the declared arguments.
C27_CallLeavesExamples ==
    [][pc # "declare" =>
          hypothesis_explicit_examples' = hypothesis_explicit_examples]_vars

\* the number of bits of a byte, and of a magnitude
RECURSIVE bit_length(_)
bit_length(b) == IF b = 0 THEN 0 ELSE 1 + bit_length(b \div 2)

BitLength(magnitude) ==
    IF magnitude = <<>> THEN 0
    ELSE 8 * (Len(magnitude) - 1) + bit_length(magnitude[1])

\* C24: in every draw of the wide-range integer strategy, with k the bit
\* length chosen as the minimum of the two uniform draws, the magnitude of
\* the integer returned is below 2^k (0 when k = 0) and its sign is that of
\* the sign bit drawn: what the sampling function returns never decodes to
\* a magnitude of more than k bits.
C24_MagnitudeBelowTwoToK ==
    (strategy.kind = "WideRangeIntStrategy" /\ returned.value # <<>>) =>
        LET k == returned.value[1].k
            r == returned.value[1].r
        IN /\ k # None => BitLength(r.magnitude) <= k
           /\ k = 0 => r.magnitude = <<>>
           /\ r.magnitude # <<>> => r.negative = (data.buffer[1] % 2 = 1)

====
